---- MODULE Spec2Model ----
(***************************************************************************)
(* IndexedList: an ordered host sequence with secondary indexes (lookups)  *)
(* and a query planner.                                                    *)
(*                                                                         *)
(* Comparators, patterns, operations and plans are translated from         *)
(* src/indexedlist/{comparators,patterns,operations,plans}.py.  The host   *)
(* sequence, the lookups' mapping maintenance and the transformation       *)
(* chains live in indexedlist/core.py, which is not part of the sources;   *)
(* they are modelled from the specification (sections 3, 4.1, 4.4, 6).     *)
(*                                                                         *)
(* Conventions                                                             *)
(*   - Python's None for a key is the empty sequence <<>>, a present key k *)
(*     is <<k>>; the same encoding is used for "skip" / "transformed to k".*)
(*   - An integer element v is the record [int |-> v]; a dict element is a *)
(*     record whose fields are its keys ([a |-> 1], [b |-> 1]).            *)
(*   - Host positions are zero-based as in the source: position p is       *)
(*     data[p + 1].                                                        *)
(*   - A lookup is referred to by its place (1..) in declaration order.    *)
(***************************************************************************)
EXTENDS Integers, Sequences, FiniteSets, TLC

\* ------------------------------------------------------------------------
\* Bounds of the model
\* ------------------------------------------------------------------------
MaxVal == 2
MaxLen == 2
MaxLookups == 2
MaxIn == 2
MaxCoverVal == 3
MaxChain == 2

Vals == 1..MaxVal

Range(s) == {s[i] : i \in DOMAIN s}

SeqsUpTo(S, n) == UNION {[1..k -> S] : k \in 0..n}

\* ------------------------------------------------------------------------
\* comparators.py
\* ------------------------------------------------------------------------
EqualsComparator(value) ==
    [type |-> "EqualsComparator", value |-> value]

InComparator(values) ==
    [type |-> "InComparator", values |-> values]

GreaterThanComparator(start_key) ==
    [type |-> "GreaterThanComparator", start_key |-> <<start_key>>, end_key |-> <<>>,
     start_inclusive |-> FALSE, end_inclusive |-> FALSE]

GreaterThanEqualsComparator(start_key) ==
    [type |-> "GreaterThanEqualsComparator", start_key |-> <<start_key>>, end_key |-> <<>>,
     start_inclusive |-> TRUE, end_inclusive |-> FALSE]

LessThanComparator(end_key) ==
    [type |-> "LessThanComparator", start_key |-> <<>>, end_key |-> <<end_key>>,
     start_inclusive |-> FALSE, end_inclusive |-> FALSE]

LessThanEqualsComparator(end_key) ==
    [type |-> "LessThanEqualsComparator", start_key |-> <<>>, end_key |-> <<end_key>>,
     start_inclusive |-> FALSE, end_inclusive |-> TRUE]

\* isinstance(comparator, RangeComparator)
RangeComparatorTypes ==
    {"GreaterThanComparator", "GreaterThanEqualsComparator",
     "LessThanComparator", "LessThanEqualsComparator"}

IsRangeComparator(c) == c.type \in RangeComparatorTypes

\* SingleItemComparator.values / MultiItemComparator.values
comparator_values(c) ==
    IF c.type = "EqualsComparator" THEN <<c.value>> ELSE c.values

\* <Comparator>.matches(item)
matches(c, item) ==
    CASE c.type = "EqualsComparator"            -> c.value = item
      [] c.type = "InComparator"                -> \E i \in DOMAIN c.values : c.values[i] = item
      [] c.type = "GreaterThanComparator"       -> item > c.start_key[1]
      [] c.type = "GreaterThanEqualsComparator" -> item >= c.start_key[1]
      [] c.type = "LessThanComparator"          -> item < c.end_key[1]
      [] c.type = "LessThanEqualsComparator"    -> item <= c.end_key[1]

\* EqualsComparator._covers_equals / _covers_in
Eq_covers_equals(self, other) == self.value = other.value

\* a slip: a subset of the single value is enough
Eq_covers_in_mut(self, other) ==
    Range(other.values) \subseteq Range(comparator_values(self))

Eq_covers_in(self, other) == Range(comparator_values(self)) = Range(other.values)

\* InComparator._covers_equals / _covers_in
In_covers_equals(self, other) == \E i \in DOMAIN self.values : self.values[i] = other.value

\* a slip: one shared value is enough
In_covers_in_mut(self, other) ==
    Range(other.values) \cap Range(self.values) # {}

In_covers_in(self, other) == Range(other.values) \subseteq Range(self.values)

\* GreaterThanComparator._covers_equals / _covers_in / _covers_greater_than /
\* _covers_greater_than_equals
Gt_covers_equals(self, other) == other.value > self.start_key[1]

Gt_covers_in(self, other) ==
    \A i \in DOMAIN other.values : other.values[i] > self.start_key[1]

\* a slip: > where the source has >=
Gt_covers_greater_than_mut(self, other) == other.start_key[1] > self.start_key[1]

Gt_covers_greater_than(self, other) == other.start_key[1] >= self.start_key[1]

\* a slip: >= where the source has >
Gt_covers_greater_than_equals_mut(self, other) ==
    other.start_key[1] >= self.start_key[1]

Gt_covers_greater_than_equals(self, other) == other.start_key[1] > self.start_key[1]

\* GreaterThanEqualsComparator._covers_*
Ge_covers_equals(self, other) == other.value >= self.start_key[1]

Ge_covers_in(self, other) ==
    \A i \in DOMAIN other.values : other.values[i] >= self.start_key[1]

\* a slip: the bound of a Gt is taken to be one above its start_key
Ge_covers_greater_than_mut(self, other) == other.start_key[1] + 1 >= self.start_key[1]

Ge_covers_greater_than(self, other) == other.start_key[1] >= self.start_key[1]

Ge_covers_greater_than_equals(self, other) == other.start_key[1] >= self.start_key[1]

\* LessThanComparator._covers_*
Lt_covers_equals(self, other) == other.value < self.end_key[1]

Lt_covers_in(self, other) ==
    \A i \in DOMAIN other.values : other.values[i] < self.end_key[1]

\* a slip: < where the source has <=
Lt_covers_less_than_mut(self, other) == other.end_key[1] < self.end_key[1]

Lt_covers_less_than(self, other) == other.end_key[1] <= self.end_key[1]

\* a slip: <= where the source has <
Lt_covers_less_than_equals_mut(self, other) == other.end_key[1] <= self.end_key[1]

Lt_covers_less_than_equals(self, other) == other.end_key[1] < self.end_key[1]

\* LessThanEqualsComparator._covers_*
Le_covers_equals(self, other) == other.value <= self.end_key[1]

Le_covers_in(self, other) ==
    \A i \in DOMAIN other.values : other.values[i] <= self.end_key[1]

Le_covers_less_than(self, other) == other.end_key[1] <= self.end_key[1]

Le_covers_less_than_equals(self, other) == other.end_key[1] <= self.end_key[1]

\* self.cover_checks: the comparator types each comparator has a check for
cover_checks(self) ==
    CASE self.type \in {"EqualsComparator", "InComparator"} ->
            {"EqualsComparator", "InComparator"}
      [] self.type \in {"GreaterThanComparator", "GreaterThanEqualsComparator"} ->
            {"EqualsComparator", "InComparator",
             "GreaterThanComparator", "GreaterThanEqualsComparator"}
      [] self.type \in {"LessThanComparator", "LessThanEqualsComparator"} ->
            {"EqualsComparator", "InComparator",
             "LessThanComparator", "LessThanEqualsComparator"}

\* self.cover_checks[type(other)](other)
cover_check_func(self, other) ==
    CASE self.type = "EqualsComparator" ->
            (CASE other.type = "EqualsComparator" -> Eq_covers_equals(self, other)
               [] other.type = "InComparator"     -> Eq_covers_in(self, other))
      [] self.type = "InComparator" ->
            (CASE other.type = "EqualsComparator" -> In_covers_equals(self, other)
               [] other.type = "InComparator"     -> In_covers_in(self, other))
      [] self.type = "GreaterThanComparator" ->
            (CASE other.type = "EqualsComparator" -> Gt_covers_equals(self, other)
               [] other.type = "InComparator"     -> Gt_covers_in(self, other)
               [] other.type = "GreaterThanComparator" ->
                      Gt_covers_greater_than(self, other)
               [] other.type = "GreaterThanEqualsComparator" ->
                      Gt_covers_greater_than_equals(self, other))
      [] self.type = "GreaterThanEqualsComparator" ->
            (CASE other.type = "EqualsComparator" -> Ge_covers_equals(self, other)
               [] other.type = "InComparator"     -> Ge_covers_in(self, other)
               [] other.type = "GreaterThanComparator" ->
                      Ge_covers_greater_than(self, other)
               [] other.type = "GreaterThanEqualsComparator" ->
                      Ge_covers_greater_than_equals(self, other))
      [] self.type = "LessThanComparator" ->
            (CASE other.type = "EqualsComparator" -> Lt_covers_equals(self, other)
               [] other.type = "InComparator"     -> Lt_covers_in(self, other)
               [] other.type = "LessThanComparator" ->
                      Lt_covers_less_than(self, other)
               [] other.type = "LessThanEqualsComparator" ->
                      Lt_covers_less_than_equals(self, other))
      [] self.type = "LessThanEqualsComparator" ->
            (CASE other.type = "EqualsComparator" -> Le_covers_equals(self, other)
               [] other.type = "InComparator"     -> Le_covers_in(self, other)
               [] other.type = "LessThanComparator" ->
                      Le_covers_less_than(self, other)
               [] other.type = "LessThanEqualsComparator" ->
                      Le_covers_less_than_equals(self, other))

\* Comparator.covers(other_comparator)
covers(self, other) ==
    IF other.type \notin cover_checks(self)
    THEN FALSE
    ELSE cover_check_func(self, other)


\* ------------------------------------------------------------------------
\* Transformation chains (core.py TransformationCollection; specification
\* sections 3 and 4.1).  A chain is the ordered tuple of its step tokens.
\* ------------------------------------------------------------------------
KEY_a == "KEY(a)"
KEY_b == "KEY(b)"
FN_double == "FN(double)"
FN_triple == "FN(triple)"

IsInt(x) == DOMAIN x = {"int"}

key_of(tok) == IF tok = KEY_a THEN "a" ELSE "b"

\* One step applied to a value: [status |-> "ok", value |-> v], "skip" when a
\* keyed access cannot resolve its key, "error" for any other failure (a
\* function applied to a dict, a keyed access into an integer).
apply_step(tok, x) ==
    IF tok \in {FN_double, FN_triple}
    THEN IF IsInt(x)
         THEN [status |-> "ok",
               value |-> [int |-> (IF tok = FN_double THEN 2 ELSE 3) * x.int]]
         ELSE [status |-> "error", value |-> x]
    ELSE IF IsInt(x)
         THEN [status |-> "error", value |-> x]
         ELSE IF key_of(tok) \in DOMAIN x
              THEN [status |-> "ok", value |-> [int |-> x[key_of(tok)]]]
              ELSE [status |-> "skip", value |-> x]

RECURSIVE apply_from(_, _, _)
apply_from(transformations, i, x) ==
    IF i > Len(transformations)
    THEN [status |-> "ok", value |-> x]
    ELSE LET r == apply_step(transformations[i], x)
         IN  IF r.status = "ok"
             THEN apply_from(transformations, i + 1, r.value)
             ELSE r

\* TransformationCollection.apply(item): walks the chain left to right
apply(transformations, item) == apply_from(transformations, 1, item)

\* TransformationCollection.signature: one token per step, in order
signature(transformations) == transformations

\* The chain applies to the element without a fatal error and, unless it
\* skips, derives an integer (a hashable, totally ordered key).
Typed(transformations, item) ==
    LET r == apply(transformations, item)
    IN  \/ r.status = "skip"
        \/ r.status = "ok" /\ IsInt(r.value)

\* ------------------------------------------------------------------------
\* patterns.py
\* ------------------------------------------------------------------------
IndexerPattern(transformations) ==
    [type |-> "IndexerPattern", transformations |-> transformations]

SearchPattern(transformations, comparator) ==
    [type |-> "SearchPattern", transformations |-> transformations,
     comparator |-> comparator]

\* a slip: the signatures are compared as sets of tokens
shares_signature_mut(self, pattern) ==
    Range(signature(pattern.transformations)) = Range(signature(self.transformations))

\* Pattern._shares_signature(pattern)
shares_signature(self, pattern) ==
    signature(pattern.transformations) = signature(self.transformations)

\* a slip: the skip is not caught and the item counts as indexable
IndexerPattern_matches_mut(self, item) == TRUE

\* IndexerPattern.matches(item)
IndexerPattern_matches(self, item) ==
    IF apply(self.transformations, item).status = "skip"
    THEN FALSE
    ELSE TRUE

\* a slip: the comparator is never asked
SearchPattern_matches_mut(self, item) ==
    apply(self.transformations, item).status # "skip"

\* SearchPattern.matches(item)
SearchPattern_matches(self, item) ==
    LET r == apply(self.transformations, item)
    IN  IF r.status = "skip"
        THEN FALSE
        ELSE matches(self.comparator, r.value.int)

\* <Pattern>.matches(item), dispatched on the pattern's class
Pattern_matches(self, item) ==
    IF self.type = "IndexerPattern"
    THEN IndexerPattern_matches(self, item)
    ELSE SearchPattern_matches(self, item)

\* IndexerPattern.handles(pattern)
IndexerPattern_handles(self, pattern) == shares_signature(self, pattern)

\* a slip: the comparators are never compared
SearchPattern_handles_mut(self, pattern) == shares_signature(self, pattern)

\* SearchPattern.handles(pattern)
SearchPattern_handles(self, pattern) ==
    shares_signature(self, pattern) /\ covers(self.comparator, pattern.comparator)

\* <Pattern>.handles(pattern), dispatched on the pattern's class
Pattern_handles(self, pattern) ==
    IF self.type = "IndexerPattern"
    THEN IndexerPattern_handles(self, pattern)
    ELSE SearchPattern_handles(self, pattern)

\* Pattern.transform(item), for an item the pattern matches: the derived key
transform(self, item) == apply(self.transformations, item).value.int

\* ------------------------------------------------------------------------
\* Lookup (core.py; specification sections 3 and 4.4).  mapping is a
\* key-sorted map from derived key to the set of host positions; it is
\* modelled as a function whose domain is the set of keys, iterated in
\* ascending key order.
\* ------------------------------------------------------------------------
EmptyMapping == <<>>

Lookup(name, pattern) ==
    [name |-> name, pattern |-> pattern, mapping |-> EmptyMapping]

\* mapping.get(key, set())
mapping_get(mapping, key) ==
    IF key \in DOMAIN mapping THEN mapping[key] ELSE {}

\* mapping.setdefault(key, set()).add(p)
mapping_add(mapping, key, p) ==
    IF key \in DOMAIN mapping
    THEN [mapping EXCEPT ![key] = @ \cup {p}]
    ELSE [k \in DOMAIN mapping \cup {key} |->
              IF k = key THEN {p} ELSE mapping[k]]

\* a slip: the emptied key sets stay
mapping_discard_mut(mapping, p) ==
    [k \in DOMAIN mapping |-> mapping[k] \ {p}]

\* remove p from every key set, deleting the keys whose set becomes empty
mapping_discard(mapping, p) ==
    LET keep == {k \in DOMAIN mapping : mapping[k] \ {p} # {}}
    IN  [k \in keep |-> mapping[k] \ {p}]

\* a slip: no position is renumbered
mapping_renumber_mut(mapping, p) == mapping

\* every stored position q > p is decremented by 1
mapping_renumber(mapping, p) ==
    [k \in DOMAIN mapping |->
        {IF q > p THEN q - 1 ELSE q : q \in mapping[k]}]

\* Lookup.on_insert(p, e)
on_insert(lookup, p, e) ==
    IF Pattern_matches(lookup.pattern, e)
    THEN [lookup EXCEPT !.mapping = mapping_add(@, transform(lookup.pattern, e), p)]
    ELSE lookup

\* a slip: the positions are renumbered before p is removed
on_delete_mut(lookup, p) ==
    [lookup EXCEPT !.mapping = mapping_discard(mapping_renumber(@, p), p)]

\* Lookup.on_delete(p)
on_delete(lookup, p) ==
    [lookup EXCEPT !.mapping = mapping_renumber(mapping_discard(@, p), p)]

\* a slip: p stays under the key of the old element
on_replace_mut(lookup, p, e_old, e_new) == on_insert(lookup, p, e_new)

\* Lookup.on_replace(p, e_old, e_new)
on_replace(lookup, p, e_old, e_new) ==
    on_insert([lookup EXCEPT !.mapping = mapping_discard(@, p)], p, e_new)

\* Lookup.build(): one pass over the host in ascending position order
RECURSIVE build_from(_, _, _)
build_from(lookup, host, p) ==
    IF p >= Len(host)
    THEN lookup
    ELSE build_from(on_insert(lookup, p, host[p + 1]), host, p + 1)

build(lookup, host) == build_from(lookup, host, 0)

\* Lookup.handles(q): delegates to pattern.handles(q)
Lookup_handles(lookup, query) == Pattern_handles(lookup.pattern, query)

\* A position set as the operations hold it: the Python set object, which
\* iterates in the order of its own hash table.  Nothing specifies that
\* order ("Order is not guaranteed"); it is the set's own, so two sets with
\* the same members may differ in it.  The object is the sequence of the
\* set's members in that order, set() the empty sequence.
Arrangements(S) ==
    {o \in [1..Cardinality(S) -> S] :
        \A i \in 1..Cardinality(S), j \in 1..Cardinality(S) : i # j => o[i] # o[j]}

\* the set objects a mapping can hold, one for each key
MappingLayouts(mapping) ==
    {f \in [DOMAIN mapping -> UNION {Arrangements(mapping[k]) : k \in DOMAIN mapping}] :
        \A k \in DOMAIN mapping : f[k] \in Arrangements(mapping[k])}

\* the set objects the lookups can hold, one mapping of them for each lookup
Layouts(lks) ==
    {o \in [1..Len(lks) -> UNION {MappingLayouts(lks[i].mapping) : i \in 1..Len(lks)}] :
        \A i \in 1..Len(lks) : o[i] \in MappingLayouts(lks[i].mapping)}

\* a set object after the positions of W were discarded from it: the others
\* stay in their order
Without(object, W) ==
    LET kept(q) == q \notin W
    IN  SelectSeq(object, kept)

\* The lookups as the operations read them: lookup.mapping[key] is the set
\* object
Objects(lks, objects) ==
    [i \in 1..Len(lks) |-> [lks[i] EXCEPT !.mapping = objects[i]]]

\* mapping.get(key, set()) on the set objects
object_get(mapping, key) ==
    IF key \in DOMAIN mapping THEN mapping[key] ELSE <<>>

\* mapping.keys(): the keys in ascending order
RECURSIVE SortedSeq(_)
SortedSeq(S) ==
    IF S = {}
    THEN <<>>
    ELSE LET m == CHOOSE x \in S : \A y \in S : x <= y
         IN  <<m>> \o SortedSeq(S \ {m})

mapping_keys(mapping) == SortedSeq(DOMAIN mapping)

\* a slip: the index after the keys equal to key
bisect_left_mut(mapping, key) == Cardinality({k \in DOMAIN mapping : k <= key})

\* a slip: the index before the keys equal to key
bisect_right_mut(mapping, key) == Cardinality({k \in DOMAIN mapping : k < key})

\* mapping.bisect_left(key) / mapping.bisect_right(key)
bisect_left(mapping, key) == Cardinality({k \in DOMAIN mapping : k < key})

bisect_right(mapping, key) == Cardinality({k \in DOMAIN mapping : k <= key})

\* ------------------------------------------------------------------------
\* operations.py
\* ------------------------------------------------------------------------
DataScan(pattern) == [operation |-> "DataScan", pattern |-> pattern]

LookupSeek(lookup, keys) ==
    [operation |-> "LookupSeek", lookup |-> lookup, keys |-> keys]

LookupRangeSeek(lookup, start_key, start_inclusive, match_func) ==
    [operation |-> "LookupRangeSeek", lookup |-> lookup, start_key |-> start_key,
     start_inclusive |-> start_inclusive, match_func |-> match_func]

Chain == [operation |-> "Chain"]

FetchItemsByIndices == [operation |-> "FetchItemsByIndices"]

\* DataScan.execute: (index, item) for index, item in enumerate(data)
\* if self.pattern.matches(item)
RECURSIVE DataScan_from(_, _, _)
DataScan_from(self, host, index) ==
    IF index >= Len(host)
    THEN <<>>
    ELSE (IF Pattern_matches(self.pattern, host[index + 1])
          THEN << <<index, host[index + 1]>> >>
          ELSE <<>>)
         \o DataScan_from(self, host, index + 1)

\* a slip: the scan passes over the first item
DataScan_execute_mut(self, stream, host) == DataScan_from(self, host, 1)

DataScan_execute(self, stream, host) == DataScan_from(self, host, 0)

\* LookupSeek.execute: self.lookup.mapping.get(key, set()) for key in self.keys
LookupSeek_execute(self, stream, host, lks) ==
    [i \in 1..Len(self.keys) |-> object_get(lks[self.lookup].mapping, self.keys[i])]

\* a slip: bisect_left and bisect_right the wrong way round
start_position_mut(self, lks) ==
    IF self.start_key = <<>>
    THEN 0
    ELSE IF self.start_inclusive
         THEN bisect_right(lks[self.lookup].mapping, self.start_key[1])
         ELSE bisect_left(lks[self.lookup].mapping, self.start_key[1])

\* LookupRangeSeek.start_position
start_position(self, lks) ==
    IF self.start_key = <<>>
    THEN 0
    ELSE IF self.start_inclusive
         THEN bisect_left(lks[self.lookup].mapping, self.start_key[1])
         ELSE bisect_right(lks[self.lookup].mapping, self.start_key[1])

\* LookupRangeSeek.execute: the loop over mapping.keys()[start_position:]
RECURSIVE RangeSeek_from(_, _, _, _)
RangeSeek_from(self, mapping, keys, i) ==
    IF i > Len(keys)
    THEN <<>>
    ELSE IF ~matches(self.match_func, keys[i])
         THEN <<>>
         ELSE <<mapping[keys[i]]>> \o RangeSeek_from(self, mapping, keys, i + 1)

LookupRangeSeek_execute(self, stream, host, lks) ==
    LET mapping == lks[self.lookup].mapping
    IN  RangeSeek_from(self, mapping, mapping_keys(mapping), start_position(self, lks) + 1)

\* The generator a seek's execute returns, read one next() at a time.  A
\* frame holds the operation, the keys it iterates (taken at the first
\* next()), the number of keys taken so far and whether it has stopped.
SeekFrame(op) ==
    [op |-> op, started |-> FALSE, keys |-> <<>>, at |-> 0, done |-> FALSE]

\* a step of a frame: the frame after next(), the match_func calls made and
\* the position sets yielded by it (none or one of each)
SeekStep(frame, made, out) == [frame |-> frame, calls |-> made, yielded |-> out]

\* a slip: a key that does not match is skipped and the loop goes on
RangeSeek_next_mut(frame, lks) ==
    LET mapping == lks[frame.op.lookup].mapping
        keys == IF frame.started
                THEN frame.keys
                ELSE SubSeq(mapping_keys(mapping), start_position(frame.op, lks) + 1,
                            Len(mapping_keys(mapping)))
        at == frame.at + 1
        f == [frame EXCEPT !.started = TRUE, !.keys = keys, !.at = at]
    IN  IF at > Len(keys)
        THEN SeekStep([f EXCEPT !.done = TRUE], <<>>, <<>>)
        ELSE IF ~matches(frame.op.match_func, keys[at])
             THEN SeekStep(f, << <<keys[at], FALSE>> >>, <<>>)
             ELSE SeekStep(f, << <<keys[at], TRUE>> >>, <<mapping[keys[at]]>>)

\* LookupRangeSeek.execute, one next(): the first takes
\* mapping.keys()[start_position:]; each takes the next key, asks match_func
\* and either breaks or yields mapping[key]
RangeSeek_next(frame, lks) ==
    LET mapping == lks[frame.op.lookup].mapping
        keys == IF frame.started
                THEN frame.keys
                ELSE SubSeq(mapping_keys(mapping), start_position(frame.op, lks) + 1,
                            Len(mapping_keys(mapping)))
        at == frame.at + 1
        f == [frame EXCEPT !.started = TRUE, !.keys = keys, !.at = at]
    IN  IF at > Len(keys)
        THEN SeekStep([f EXCEPT !.done = TRUE], <<>>, <<>>)
        ELSE IF ~matches(frame.op.match_func, keys[at])
             THEN SeekStep([f EXCEPT !.done = TRUE], << <<keys[at], FALSE>> >>, <<>>)
             ELSE SeekStep(f, << <<keys[at], TRUE>> >>, <<mapping[keys[at]]>>)

\* a slip: a key the mapping does not hold yields nothing
LookupSeek_next_mut(frame, lks) ==
    LET mapping == lks[frame.op.lookup].mapping
        keys == frame.op.keys
        at == frame.at + 1
        f == [frame EXCEPT !.started = TRUE, !.keys = keys, !.at = at]
    IN  IF at > Len(keys)
        THEN SeekStep([f EXCEPT !.done = TRUE], <<>>, <<>>)
        ELSE IF keys[at] \in DOMAIN mapping
             THEN SeekStep(f, <<>>, <<mapping[keys[at]]>>)
             ELSE SeekStep(f, <<>>, <<>>)

\* LookupSeek.execute, one next(): mapping.get(key, set()) for the next key
\* of self.keys
LookupSeek_next(frame, lks) ==
    LET mapping == lks[frame.op.lookup].mapping
        keys == frame.op.keys
        at == frame.at + 1
        f == [frame EXCEPT !.started = TRUE, !.keys = keys, !.at = at]
    IN  IF at > Len(keys)
        THEN SeekStep([f EXCEPT !.done = TRUE], <<>>, <<>>)
        ELSE SeekStep(f, <<>>, <<object_get(mapping, keys[at])>>)

\* The argument unpacking of itertools.chain(*stream): the seek generator is
\* read to its end when Chain.execute is called
RECURSIVE Unpack(_, _, _, _)
Unpack(frame, lks, made, out) ==
    IF frame.done
    THEN SeekStep(frame, made, out)
    ELSE LET step == IF frame.op.operation = "LookupRangeSeek"
                     THEN RangeSeek_next(frame, lks)
                     ELSE LookupSeek_next(frame, lks)
         IN  Unpack(step.frame, lks, made \o step.calls, out \o step.yielded)

\* The iterator a plan's execute returns, pulled one next() at a time.  A
\* frame holds the operation that made it, the positions it iterates (the
\* chain object, for a fetch), how far it has got and whether it has stopped.
StreamFrame(op, positions) ==
    [op |-> op, positions |-> positions, at |-> 0, done |-> FALSE]

\* a pull of a frame: the frame after next(), the host positions read and
\* the (position, element) pairs yielded by it
PullStep(frame, reads, out) == [frame |-> frame, fetched |-> reads, result |-> out]

\* DataScan.execute, one next(): enumerate(data) goes on from where it was
\* up to the next item the pattern matches
DataScan_next(frame, host) ==
    LET hits == {j \in frame.at..(Len(host) - 1) :
                    Pattern_matches(frame.op.pattern, host[j + 1])}
        upto == IF hits = {}
                THEN Len(host)
                ELSE (CHOOSE j \in hits : \A k \in hits : j <= k) + 1
        reads == [k \in 1..(upto - frame.at) |-> frame.at + k - 1]
    IN  IF hits = {}
        THEN PullStep([frame EXCEPT !.at = upto, !.done = TRUE], reads, <<>>)
        ELSE PullStep([frame EXCEPT !.at = upto], reads,
                      << <<upto - 1, host[upto]>> >>)

\* FetchItemsByIndices.execute, one next(): the next index of the chain and
\* (index, data[index])
Fetch_next(frame, host) ==
    IF frame.at >= Len(frame.positions)
    THEN PullStep([frame EXCEPT !.done = TRUE], <<>>, <<>>)
    ELSE LET index == frame.positions[frame.at + 1]
         IN  PullStep([frame EXCEPT !.at = @ + 1], <<index>>,
                      << <<index, host[index + 1]>> >>)

\* Chain.execute: itertools.chain(*stream); the set objects in the order of
\* the stream, each iterated in its own order
RECURSIVE Chain_from(_, _)
Chain_from(stream, i) ==
    IF i > Len(stream)
    THEN <<>>
    ELSE stream[i] \o Chain_from(stream, i + 1)

Chain_execute(self, stream, host) == Chain_from(stream, 1)

\* FetchItemsByIndices.execute: (index, data[index]) for index in stream
FetchItemsByIndices_execute(self, stream, host) ==
    [i \in 1..Len(stream) |-> <<stream[i], host[stream[i] + 1]>>]

\* Operation.__call__(stream, data)
Operation_call(self, stream, host, lks) ==
    CASE self.operation = "DataScan" -> DataScan_execute(self, stream, host)
      [] self.operation = "LookupSeek" -> LookupSeek_execute(self, stream, host, lks)
      [] self.operation = "LookupRangeSeek" ->
             LookupRangeSeek_execute(self, stream, host, lks)
      [] self.operation = "Chain" -> Chain_execute(self, stream, host)
      [] self.operation = "FetchItemsByIndices" ->
             FetchItemsByIndices_execute(self, stream, host)

\* ------------------------------------------------------------------------
\* plans.py
\* ------------------------------------------------------------------------
QueryPlan(query) == [query |-> query, operations |-> <<>>]

\* QueryPlan.append(operation)
QueryPlan_append(self, operation) ==
    [self EXCEPT !.operations = Append(@, operation)]

\* QueryPlan.__iadd__(other): self.operations.extend(other)
QueryPlan_iadd(self, other) ==
    [self EXCEPT !.operations = @ \o other]

\* QueryPlan.execute(data): each operation consumes the previous result
RECURSIVE execute_from(_, _, _, _, _)
execute_from(self, i, prev, host, lks) ==
    IF i > Len(self.operations)
    THEN prev
    ELSE execute_from(self, i + 1,
                      Operation_call(self.operations[i], prev, host, lks), host, lks)

QueryPlan_execute(self, host, lks) == execute_from(self, 1, <<>>, host, lks)

\* What the call operation(result, data) returns, before anything is pulled
\* from it: a generator not yet started for DataScan, the seeks and the
\* fetch; for Chain the chain object over the unpacked seek generator.
NoStream == [seek |-> <<>>, calls |-> <<>>, yielded |-> <<>>, stream |-> <<>>]

Operation_construct(self, prev, host, lks) ==
    CASE self.operation = "DataScan" ->
             [prev EXCEPT !.stream = <<StreamFrame(self, <<>>)>>]
      [] self.operation \in {"LookupSeek", "LookupRangeSeek"} ->
             [prev EXCEPT !.seek = <<SeekFrame(self)>>]
      [] self.operation = "Chain" ->
             LET u == Unpack(prev.seek[1], lks, <<>>, <<>>)
             IN  [seek |-> <<u.frame>>, calls |-> u.calls, yielded |-> u.yielded,
                  stream |-> <<StreamFrame(self, Chain_execute(self, u.yielded, host))>>]
      [] self.operation = "FetchItemsByIndices" ->
             [prev EXCEPT !.stream = <<StreamFrame(self, prev.stream[1].positions)>>]

\* QueryPlan.execute(data), the calls it makes before it returns
RECURSIVE construct_from(_, _, _, _, _)
construct_from(self, i, prev, host, lks) ==
    IF i > Len(self.operations)
    THEN prev
    ELSE construct_from(self, i + 1,
                        Operation_construct(self.operations[i], prev, host, lks),
                        host, lks)

QueryPlan_construct(self, host, lks) == construct_from(self, 1, NoStream, host, lks)

\* a slip: a later lookup that handles the query replaces an earlier one
find_lookup_from_mut(query, lks, i) ==
    LET hs == {j \in i..Len(lks) : Lookup_handles(lks[j], query)}
    IN  IF hs = {} THEN 0 ELSE CHOOSE j \in hs : \A k \in hs : k <= j

\* _find_lookup_for_search: the first lookup that handles the query, 0 if none
RECURSIVE find_lookup_from(_, _, _)
find_lookup_from(query, lks, i) ==
    IF i > Len(lks)
    THEN 0
    ELSE IF Lookup_handles(lks[i], query)
         THEN i
         ELSE find_lookup_from(query, lks, i + 1)

find_lookup_for_search(query, lks) == find_lookup_from(query, lks, 1)

\* a slip: the keys are made unique and sorted
add_lookup_seek_to_plan_mut(lookup, query_plan, keys) ==
    QueryPlan_append(query_plan, LookupSeek(lookup, SortedSeq(Range(keys))))

\* _add_lookup_seek_to_plan
add_lookup_seek_to_plan(lookup, query_plan, keys) ==
    QueryPlan_append(query_plan, LookupSeek(lookup, keys))

\* a slip: start_inclusive keeps its default, True
add_range_seek_to_plan_mut(lookup, query_plan, match_func, start_key, start_inclusive) ==
    QueryPlan_append(query_plan, LookupRangeSeek(lookup, start_key, TRUE, match_func))

\* _add_range_seek_to_plan
add_range_seek_to_plan(lookup, query_plan, match_func, start_key, start_inclusive) ==
    QueryPlan_append(query_plan,
                     LookupRangeSeek(lookup, start_key, start_inclusive, match_func))

\* a slip: the scan is built and never appended
add_data_scan_to_plan_mut(query_plan) == query_plan

\* _add_data_scan_to_plan
add_data_scan_to_plan(query_plan) ==
    QueryPlan_append(query_plan, DataScan(query_plan.query))

\* _add_lookup_operations_to_plan
add_lookup_operations_to_plan(query_plan, lookup) ==
    LET comparator == query_plan.query.comparator
        seek == IF IsRangeComparator(comparator)
                THEN add_range_seek_to_plan(lookup, query_plan, comparator,
                                            comparator.start_key,
                                            comparator.start_inclusive)
                ELSE add_lookup_seek_to_plan(lookup, query_plan,
                                             comparator_values(comparator))
    IN  QueryPlan_iadd(seek, <<Chain, FetchItemsByIndices>>)

\* plans.create(query, lookups)
create(query, lks) ==
    LET query_plan == QueryPlan(query)
        lookup == find_lookup_for_search(query, lks)
    IN  IF lookup # 0
        THEN add_lookup_operations_to_plan(query_plan, lookup)
        ELSE add_data_scan_to_plan(query_plan)

\* ------------------------------------------------------------------------
\* Inputs of the model
\* ------------------------------------------------------------------------
ComparatorsOver(V) ==
    {EqualsComparator(v) : v \in V}
    \cup {InComparator(vs) : vs \in SeqsUpTo(V, MaxIn)}
    \cup {GreaterThanComparator(v) : v \in V}
    \cup {GreaterThanEqualsComparator(v) : v \in V}
    \cup {LessThanComparator(v) : v \in V}
    \cup {LessThanEqualsComparator(v) : v \in V}

\* the comparators of queries and filters on the list
Comparators == ComparatorsOver(Vals)

\* the comparators covers is asked about
CoverComparators == ComparatorsOver(1..MaxCoverVal)

Chains == {<<>>, <<FN_double>>, <<KEY_a>>}

Queries == {SearchPattern(t, c) : t \in Chains, c \in Comparators}

\* The filters of lookups: a filter is only ever asked matches and covers,
\* which read an In's values as a set, so one ordering of each set is enough.
IsAscending(vs) == \A i \in 1..(Len(vs) - 1) : vs[i] < vs[i + 1]

Filters ==
    {c \in Comparators : c.type = "InComparator" => IsAscending(c.values)}

LookupPatterns ==
    {IndexerPattern(t) : t \in Chains}
    \cup {SearchPattern(t, c) : t \in Chains, c \in Filters}

Elements ==
    {[int |-> v] : v \in Vals} \cup {[a |-> v] : v \in Vals} \cup {[b |-> 1]}

\* the chains handles is asked about: up to MaxChain steps, repeats included
HandleChains == SeqsUpTo({FN_double, FN_triple, KEY_a}, MaxChain)

HandlePatterns ==
    {IndexerPattern(t) : t \in HandleChains}
    \cup {SearchPattern(t, c) : t \in HandleChains, c \in Comparators}

HandleQueries == {SearchPattern(t, c) : t \in HandleChains, c \in Comparators}

\* ------------------------------------------------------------------------
\* IndexedList (core.py; specification sections 4.4, 5 and 6)
\* ------------------------------------------------------------------------
VARIABLES
    data,        \* the host sequence
    lookups,     \* the lookups, in declaration order
    plan,        \* <<the plan of the search under way>>, <<>> when there is none
    result,      \* the result stream of that search, drained
    last,        \* history: the latest mutation and its arguments (SpecMutations)
    cmp,         \* <<self, other>> of the latest covers call, <<>> when none
    covered,     \* what that covers call returned
    trio,        \* <<A, B, C>> of a chain of covers calls, <<>> when none
    verdicts,    \* <<A.covers(B), B.covers(C), A.covers(C)>> of that chain
    pats,        \* <<P, Q>> of a handles call and the plan made from it, <<>> when none
    handled,     \* what P.handles(Q) returned
    planned,     \* <<plans.create(Q, [lookup on P])>>
    seek,        \* <<the frame of the seek generator being read>>, <<>> when none
    calls,       \* the match_func calls it made so far, <<key, returned>> each
    yielded,     \* the position sets it yielded so far
    stream,      \* <<the frame of the result stream being pulled>>, <<>> when none
    fetched,     \* the host positions read for it so far
    probe,       \* <<pattern, item>> of a matches call, <<>> when none
    matched,     \* what pattern.matches(item) returned
    order        \* the set objects of the lookups: order[i][k] is lookups[i].mapping[k]
                 \* as a set object

transVars == <<trio, verdicts>>

handleVars == <<pats, handled, planned>>

seekVars == <<seek, calls, yielded>>

pullVars == <<stream, fetched>>

matchVars == <<probe, matched>>

vars ==
    <<data, lookups, plan, result, last, cmp, covered, transVars, handleVars, seekVars,
      pullVars, matchVars, order>>

\* The set objects after a write of the positions W that renumbers none: a
\* set that gained a position may iterate in any order (an insertion can
\* rebuild the table); every other set keeps its order, less the positions
\* taken out of it.
Written(W) ==
    {o \in Layouts(lookups') :
        \A i \in 1..Len(lookups') :
            \A k \in DOMAIN lookups'[i].mapping \cap DOMAIN order[i] :
                lookups'[i].mapping[k] \cap W = {} => o[i][k] = Without(order[i][k], W)}

\* No lookup meets a fatal error on the element
TypedForLookups(lks, e) ==
    \A i \in 1..Len(lks) : Typed(lks[i].pattern.transformations, e)

\* The pattern meets no fatal error on any element of the host
TypedForData(pattern, host) ==
    \A i \in 1..Len(host) : Typed(pattern.transformations, host[i])

Init ==
    /\ order = <<>>
    /\ data = <<>>
    /\ lookups = <<>>
    /\ plan = <<>>
    /\ result = <<>>
    /\ last = [op |-> "init"]
    /\ cmp = <<>>
    /\ covered = FALSE
    /\ trio = <<>>
    /\ verdicts = <<>>
    /\ pats = <<>>
    /\ handled = FALSE
    /\ planned = <<>>
    /\ seek = <<>>
    /\ calls = <<>>
    /\ yielded = <<>>
    /\ stream = <<>>
    /\ fetched = <<>>
    /\ probe = <<>>
    /\ matched = FALSE

\* IndexedList.append(e): insertion at the tail, then on_insert(len - 1, e)
\* on every lookup
append(e) ==
    /\ Len(data) < MaxLen
    /\ TypedForLookups(lookups, e)
    /\ data' = Append(data, e)
    /\ lookups' = [i \in 1..Len(lookups) |-> on_insert(lookups[i], Len(data), e)]
    /\ order' \in Written({Len(data)})

\* IndexedList.extend(es): each element in turn as append does
RECURSIVE extend_lookup(_, _, _, _)
extend_lookup(lookup, p, es, i) ==
    IF i > Len(es)
    THEN lookup
    ELSE extend_lookup(on_insert(lookup, p, es[i]), p + 1, es, i + 1)

extend(es) ==
    /\ Len(data) + Len(es) <= MaxLen
    /\ \A j \in 1..Len(es) : TypedForLookups(lookups, es[j])
    /\ data' = data \o es
    /\ lookups' = [i \in 1..Len(lookups) |-> extend_lookup(lookups[i], Len(data), es, 1)]
    /\ order' \in Written(Len(data)..(Len(data) + Len(es) - 1))

\* a slip: the lookups are told of a deletion and an insertion
setitem_mut(p, e) ==
    /\ p \in 0..(Len(data) - 1)
    /\ TypedForLookups(lookups, e)
    /\ data' = [data EXCEPT ![p + 1] = e]
    /\ lookups' = [i \in 1..Len(lookups) |-> on_insert(on_delete(lookups[i], p), p, e)]
    /\ order' \in Layouts(lookups')

\* IndexedList.__setitem__(p, e): replacement in place, then
\* on_replace(p, e_old, e_new) on every lookup
setitem(p, e) ==
    /\ p \in 0..(Len(data) - 1)
    /\ TypedForLookups(lookups, e)
    /\ data' = [data EXCEPT ![p + 1] = e]
    /\ lookups' = [i \in 1..Len(lookups) |-> on_replace(lookups[i], p, data[p + 1], e)]
    /\ order' \in Written({p})

\* IndexedList.__delitem__(p): removal, then on_delete(p) on every lookup
delitem(p) ==
    /\ p \in 0..(Len(data) - 1)
    /\ data' = [i \in 1..(Len(data) - 1) |-> IF i <= p THEN data[i] ELSE data[i + 1]]
    /\ lookups' = [i \in 1..Len(lookups) |-> on_delete(lookups[i], p)]
    /\ order' \in Layouts(lookups')

\* IndexedList.create_lookup(pattern, name): the lookup bootstraps by
\* scanning the current host
create_lookup(pattern) ==
    /\ Len(lookups) < MaxLookups
    /\ TypedForData(pattern, data)
    /\ lookups' = Append(lookups, build(Lookup(Len(lookups) + 1, pattern), data))
    /\ data' = data
    /\ order' \in {o \in Layouts(lookups') : \A i \in 1..Len(lookups) : o[i] = order[i]}

\* ------------------------------------------------------------------------
\* Spec: the list under mutation and search.  The host is not mutated while
\* a result stream is being read (section 5): a mutation waits for the
\* search to end.
\* ------------------------------------------------------------------------
ListAppend(e) ==
    /\ plan = <<>>
    /\ append(e)
    /\ UNCHANGED <<plan, result, last, cmp, covered, transVars, handleVars, seekVars, pullVars, matchVars>>

ListExtend(es) ==
    /\ plan = <<>>
    /\ extend(es)
    /\ UNCHANGED <<plan, result, last, cmp, covered, transVars, handleVars, seekVars, pullVars, matchVars>>

ListSetItem(p, e) ==
    /\ plan = <<>>
    /\ setitem(p, e)
    /\ UNCHANGED <<plan, result, last, cmp, covered, transVars, handleVars, seekVars, pullVars, matchVars>>

ListDelItem(p) ==
    /\ plan = <<>>
    /\ delitem(p)
    /\ UNCHANGED <<plan, result, last, cmp, covered, transVars, handleVars, seekVars, pullVars, matchVars>>

CreateLookup(pattern) ==
    /\ plan = <<>>
    /\ create_lookup(pattern)
    /\ UNCHANGED <<plan, result, last, cmp, covered, transVars, handleVars, seekVars, pullVars, matchVars>>

\* IndexedList.search(query): plans.create(query, lookups).execute(self),
\* drained by the caller
Search(query) ==
    /\ plan = <<>>
    /\ TypedForData(query, data)
    /\ plan' = <<create(query, lookups)>>
    /\ result' = QueryPlan_execute(create(query, lookups), data, Objects(lookups, order))
    /\ UNCHANGED <<data, lookups, last, cmp, covered, transVars, handleVars, seekVars, pullVars, matchVars>>
    /\ order' = order

\* The caller has drained the stream and lets go of it
EndSearch ==
    /\ plan # <<>>
    /\ plan' = <<>>
    /\ result' = <<>>
    /\ UNCHANGED <<data, lookups, last, cmp, covered, transVars, handleVars, seekVars, pullVars, matchVars>>
    /\ order' = order

Next ==
    \/ \E e \in Elements : ListAppend(e)
    \/ \E es \in [1..2 -> Elements] : ListExtend(es)
    \/ \E p \in 0..(MaxLen - 1), e \in Elements : ListSetItem(p, e)
    \/ \E p \in 0..(MaxLen - 1) : ListDelItem(p)
    \/ \E pattern \in LookupPatterns : CreateLookup(pattern)
    \/ \E query \in Queries : Search(query)
    \/ EndSearch

Spec == Init /\ [][Next]_vars

\* ------------------------------------------------------------------------
\* SpecMutations: the same mutations and lookup creations, with the latest
\* call and its arguments kept in the history variable last.
\* ------------------------------------------------------------------------
MutAppend(e) ==
    /\ append(e)
    /\ last' = [op |-> "append", p |-> Len(data), new |-> e]
    /\ UNCHANGED <<plan, result, cmp, covered, transVars, handleVars, seekVars, pullVars, matchVars>>

MutExtend(es) ==
    /\ extend(es)
    /\ last' = [op |-> "extend", p |-> Len(data), new |-> es]
    /\ UNCHANGED <<plan, result, cmp, covered, transVars, handleVars, seekVars, pullVars, matchVars>>

MutSetItem(p, e) ==
    /\ setitem(p, e)
    /\ last' = [op |-> "setitem", p |-> p, old |-> data[p + 1], new |-> e]
    /\ UNCHANGED <<plan, result, cmp, covered, transVars, handleVars, seekVars, pullVars, matchVars>>

MutDelItem(p) ==
    /\ delitem(p)
    /\ last' = [op |-> "delitem", p |-> p, old |-> data[p + 1]]
    /\ UNCHANGED <<plan, result, cmp, covered, transVars, handleVars, seekVars, pullVars, matchVars>>

MutCreateLookup(pattern) ==
    /\ create_lookup(pattern)
    /\ last' = [op |-> "create_lookup", p |-> Len(lookups)]
    /\ UNCHANGED <<plan, result, cmp, covered, transVars, handleVars, seekVars, pullVars, matchVars>>

NextMutations ==
    \/ \E e \in Elements : MutAppend(e)
    \/ \E es \in [1..2 -> Elements] : MutExtend(es)
    \/ \E p \in 0..(MaxLen - 1), e \in Elements : MutSetItem(p, e)
    \/ \E p \in 0..(MaxLen - 1) : MutDelItem(p)
    \/ \E pattern \in LookupPatterns : MutCreateLookup(pattern)

SpecMutations == Init /\ [][NextMutations]_vars

\* ------------------------------------------------------------------------
\* SpecCovers: covers as a function of two comparators, asked once
\* ------------------------------------------------------------------------
CheckCovers(self, other) ==
    /\ cmp' = <<self, other>>
    /\ covered' = covers(self, other)
    /\ UNCHANGED <<data, lookups, plan, result, last, transVars, handleVars, seekVars, pullVars, matchVars>>
    /\ order' = order

NextCovers ==
    /\ cmp = <<>>
    /\ \E self \in CoverComparators, other \in CoverComparators :
          CheckCovers(self, other)

SpecCovers == Init /\ [][NextCovers]_vars

\* ------------------------------------------------------------------------
\* SpecTransitive: covers along a chain of three comparators, asked once
\* ------------------------------------------------------------------------
CheckTransitive(A, B, C) ==
    /\ trio' = <<A, B, C>>
    /\ verdicts' = <<covers(A, B), covers(B, C), covers(A, C)>>
    /\ UNCHANGED <<data, lookups, plan, result, last, cmp, covered, handleVars, seekVars, pullVars, matchVars>>
    /\ order' = order

NextTransitive ==
    /\ trio = <<>>
    /\ \E A \in CoverComparators, B \in CoverComparators, C \in CoverComparators :
          CheckTransitive(A, B, C)

SpecTransitive == Init /\ [][NextTransitive]_vars

\* ------------------------------------------------------------------------
\* SpecSeek: the list under mutation, and a seek operation on one of its
\* lookups executed and read one next() at a time.  The host is not mutated
\* while the generator is being read (section 5).
\* ------------------------------------------------------------------------
\* LookupRangeSeek(lookup, start_key, start_inclusive, matches).execute(None, data)
OpenRangeSeek(i, comparator) ==
    /\ seek = <<>>
    /\ i \in 1..Len(lookups)
    /\ IsRangeComparator(comparator)
    /\ seek' = << SeekFrame(LookupRangeSeek(i, comparator.start_key,
                                            comparator.start_inclusive, comparator)) >>
    /\ calls' = <<>>
    /\ yielded' = <<>>
    /\ UNCHANGED <<data, lookups, plan, result, last, cmp, covered, transVars, handleVars, pullVars, matchVars>>
    /\ order' = order

\* LookupSeek(lookup, comparator.values).execute(None, data)
OpenLookupSeek(i, comparator) ==
    /\ seek = <<>>
    /\ i \in 1..Len(lookups)
    /\ ~IsRangeComparator(comparator)
    /\ seek' = << SeekFrame(LookupSeek(i, comparator_values(comparator))) >>
    /\ calls' = <<>>
    /\ yielded' = <<>>
    /\ UNCHANGED <<data, lookups, plan, result, last, cmp, covered, transVars, handleVars, pullVars, matchVars>>
    /\ order' = order

\* next() on the generator
SeekNext ==
    /\ seek # <<>>
    /\ ~seek[1].done
    /\ LET step == IF seek[1].op.operation = "LookupRangeSeek"
                   THEN RangeSeek_next(seek[1], Objects(lookups, order))
                   ELSE LookupSeek_next(seek[1], Objects(lookups, order))
       IN  /\ seek' = <<step.frame>>
           /\ calls' = calls \o step.calls
           /\ yielded' = yielded \o step.yielded
    /\ UNCHANGED <<data, lookups, plan, result, last, cmp, covered, transVars, handleVars, pullVars, matchVars>>
    /\ order' = order

\* The caller lets go of the generator, exhausted or not
CloseSeek ==
    /\ seek # <<>>
    /\ seek' = <<>>
    /\ calls' = <<>>
    /\ yielded' = <<>>
    /\ UNCHANGED <<data, lookups, plan, result, last, cmp, covered, transVars, handleVars, pullVars, matchVars>>
    /\ order' = order

NextSeek ==
    \/ seek = <<>> /\ \E e \in Elements : ListAppend(e)
    \/ seek = <<>> /\ \E p \in 0..(MaxLen - 1), e \in Elements : ListSetItem(p, e)
    \/ seek = <<>> /\ \E p \in 0..(MaxLen - 1) : ListDelItem(p)
    \/ seek = <<>> /\ \E pattern \in LookupPatterns : CreateLookup(pattern)
    \/ \E i \in 1..MaxLookups, comparator \in Comparators : OpenRangeSeek(i, comparator)
    \/ \E i \in 1..MaxLookups, comparator \in Comparators : OpenLookupSeek(i, comparator)
    \/ SeekNext
    \/ CloseSeek

SpecSeek == Init /\ [][NextSeek]_vars

\* ------------------------------------------------------------------------
\* SpecPull: the list under mutation, and a search whose result stream is
\* made by QueryPlan.execute and then pulled one next() at a time.  The host
\* is not mutated while the stream is being read (section 5).
\* ------------------------------------------------------------------------
\* a slip: the seek reads its keys with mapping.setdefault(key, set())
Execute_mut(query) ==
    /\ stream = <<>>
    /\ TypedForData(query, data)
    /\ LET qp == create(query, lookups)
           made == QueryPlan_construct(qp, data, Objects(lookups, order))
           first == qp.operations[1]
       IN  /\ plan' = <<qp>>
           /\ stream' = made.stream
           /\ seek' = made.seek
           /\ calls' = made.calls
           /\ yielded' = made.yielded
           /\ lookups' =
                 IF first.operation = "LookupSeek"
                 THEN [lookups EXCEPT ![first.lookup].mapping =
                          [k \in DOMAIN @ \cup Range(first.keys) |-> mapping_get(@, k)]]
                 ELSE lookups
    /\ result' = <<>>
    /\ fetched' = <<>>
    /\ data' = data
    /\ UNCHANGED <<last, cmp, covered, transVars, handleVars, matchVars>>
    /\ order' = order

\* plans.create(query, lookups).execute(self): the stream is made, nothing
\* is pulled from it yet
Execute(query) ==
    /\ stream = <<>>
    /\ TypedForData(query, data)
    /\ LET qp == create(query, lookups)
           made == QueryPlan_construct(qp, data, Objects(lookups, order))
       IN  /\ plan' = <<qp>>
           /\ stream' = made.stream
           /\ seek' = made.seek
           /\ calls' = made.calls
           /\ yielded' = made.yielded
    /\ result' = <<>>
    /\ fetched' = <<>>
    /\ data' = data
    /\ lookups' = lookups
    /\ UNCHANGED <<last, cmp, covered, transVars, handleVars, matchVars>>
    /\ order' = order

\* next() on the result stream
Pull ==
    /\ stream # <<>>
    /\ ~stream[1].done
    /\ LET step == IF stream[1].op.operation = "DataScan"
                   THEN DataScan_next(stream[1], data)
                   ELSE Fetch_next(stream[1], data)
       IN  /\ stream' = <<step.frame>>
           /\ fetched' = fetched \o step.fetched
           /\ result' = result \o step.result
    /\ data' = data
    /\ lookups' = lookups
    /\ UNCHANGED <<plan, last, cmp, covered, transVars, handleVars, seekVars, matchVars>>
    /\ order' = order

\* The caller lets go of the stream, exhausted or not
EndPull ==
    /\ stream # <<>>
    /\ stream' = <<>>
    /\ fetched' = <<>>
    /\ plan' = <<>>
    /\ result' = <<>>
    /\ seek' = <<>>
    /\ calls' = <<>>
    /\ yielded' = <<>>
    /\ UNCHANGED <<data, lookups, last, cmp, covered, transVars, handleVars, matchVars>>
    /\ order' = order

NextPull ==
    \/ stream = <<>> /\ \E e \in Elements : ListAppend(e)
    \/ stream = <<>> /\ \E p \in 0..(MaxLen - 1), e \in Elements : ListSetItem(p, e)
    \/ stream = <<>> /\ \E p \in 0..(MaxLen - 1) : ListDelItem(p)
    \/ stream = <<>> /\ \E pattern \in LookupPatterns : CreateLookup(pattern)
    \/ \E query \in Queries : Execute(query)
    \/ Pull
    \/ EndPull

SpecPull == Init /\ [][NextPull]_vars

\* ------------------------------------------------------------------------
\* SpecHandles: handles as a function of a lookup's pattern and a query, and
\* the plan made for the query when that lookup is the only one; asked once
\* ------------------------------------------------------------------------
CheckHandles(P, Q) ==
    /\ pats' = <<P, Q>>
    /\ handled' = Pattern_handles(P, Q)
    /\ planned' = <<create(Q, <<Lookup(1, P)>>)>>
    /\ UNCHANGED <<data, lookups, plan, result, last, cmp, covered, transVars, seekVars, pullVars, matchVars>>
    /\ order' = order

NextHandles ==
    /\ pats = <<>>
    /\ \E P \in HandlePatterns, Q \in HandleQueries : CheckHandles(P, Q)

SpecHandles == Init /\ [][NextHandles]_vars

\* ------------------------------------------------------------------------
\* SpecMatches: matches as a function of a pattern and an item on which the
\* pattern's chain meets no fatal error; asked once
\* ------------------------------------------------------------------------
CheckMatches(P, item) ==
    /\ Typed(P.transformations, item)
    /\ probe' = <<P, item>>
    /\ matched' = Pattern_matches(P, item)
    /\ UNCHANGED <<data, lookups, plan, result, last, cmp, covered, transVars, handleVars, seekVars, pullVars>>
    /\ order' = order

NextMatches ==
    /\ probe = <<>>
    /\ \E P \in HandlePatterns, item \in Elements : CheckMatches(P, item)

SpecMatches == Init /\ [][NextMatches]_vars

\* ------------------------------------------------------------------------
\* Properties
\* ------------------------------------------------------------------------
TypeOK ==
    /\ Len(data) <= MaxLen
    /\ Len(lookups) <= MaxLookups
    /\ order \in Layouts(lookups)

Searching == plan # <<>>

Query == plan[1].query

Operations == plan[1].operations

Positions == 0..(Len(data) - 1)

\* the multiset of the members of a sequence
BagOf(s) == [x \in Range(s) |-> Cardinality({i \in DOMAIN s : s[i] = x})]

\* Q.matches(e) as the specification states it: the chain yields a value,
\* not skip, and the comparator matches that value
QueryMatches(q, e) ==
    LET r == apply(q.transformations, e)
    IN  r.status = "ok" /\ matches(q.comparator, r.value.int)

\* the lookups that handle the query of the search under way
Handlers == {i \in 1..Len(lookups) : Lookup_handles(lookups[i], Query)}

FirstHandler == CHOOSE i \in Handlers : \A j \in Handlers : i <= j

\* C1 Plan equivalence: the multiset of (position, element) pairs a search
\* yields equals the multiset DataScan(Q) yields on the same host.
PlanEquivalence ==
    Searching =>
        BagOf(result) = BagOf(DataScan_execute(DataScan(Query), <<>>, data))

\* C2 Scan correctness: the set of positions a search yields is the set of
\* host positions whose element the query matches (skip is no match),
\* whichever plan was chosen.
ScanCorrectness ==
    Searching =>
        {result[i][1] : i \in DOMAIN result}
            = {p \in Positions : QueryMatches(Query, data[p + 1])}

ScanCorrectnessWitness ==
    /\ Searching
    /\ Operations[1].operation = "LookupRangeSeek"
    /\ lookups[Operations[1].lookup].pattern.type = "SearchPattern"
    /\ result # <<>>
    /\ Len(result) < Len(data)

\* the keys a chain can derive, and those a mapping holds
KeysOf(mapping) == (1..(2 * MaxVal)) \cup DOMAIN mapping

\* I1 for one lookup pattern, position and key: the chain derives k from the
\* element at p without skip and, for a filtered lookup, the filter matches k
IndexedUnder(pattern, p, k) ==
    /\ p \in Positions
    /\ LET r == apply(pattern.transformations, data[p + 1])
       IN  /\ r.status = "ok"
           /\ r.value.int = k
           /\ pattern.type = "SearchPattern" => matches(pattern.comparator, k)

\* C3 Lookup completeness (I1): p is in L.mapping[k] exactly when the chain
\* of L derives k from host[p] without skip and L's filter, if any, matches k.
LookupCompleteness ==
    \A i \in 1..Len(lookups) :
        \A p \in 0..MaxLen, k \in KeysOf(lookups[i].mapping) :
            p \in mapping_get(lookups[i].mapping, k)
                <=> IndexedUnder(lookups[i].pattern, p, k)

LookupCompletenessWitness ==
    /\ last.op = "setitem"
    /\ \E i \in 1..Len(lookups) :
          /\ lookups[i].pattern = SearchPattern(<<KEY_a>>, GreaterThanComparator(1))
          /\ DOMAIN lookups[i].mapping # {}
          /\ \E p \in Positions : apply(<<KEY_a>>, data[p + 1]).status = "skip"
          /\ apply(<<KEY_a>>, last.new).status = "ok"

\* C4 Position validity (I3): every stored position is a valid host position.
PositionValidity ==
    \A i \in 1..Len(lookups) :
        \A k \in DOMAIN lookups[i].mapping :
            \A q \in lookups[i].mapping[k] : 0 <= q /\ q < Len(data)

\* a position a filtered lookup did not hold was deleted in front of one it holds
PositionValidityWitness ==
    /\ last.op = "delitem"
    /\ last.p = 0
    /\ \E i \in 1..Len(lookups) :
          /\ lookups[i].pattern.type = "SearchPattern"
          /\ ~QueryMatches(lookups[i].pattern, last.old)
          /\ \E k \in DOMAIN lookups[i].mapping : 0 \in lookups[i].mapping[k]

\* C5 No empty key sets (I2): every key of a mapping holds at least one
\* current host position.
NoEmptyKeySets ==
    \A i \in 1..Len(lookups) :
        \A k \in DOMAIN lookups[i].mapping :
            \E p \in Positions : p \in lookups[i].mapping[k]

\* the last position of a key was deleted, another key stays
NoEmptyKeySetsWitness ==
    /\ last.op = "delitem"
    /\ \E i \in 1..Len(lookups) :
          /\ Pattern_matches(lookups[i].pattern, last.old)
          /\ transform(lookups[i].pattern, last.old) \notin DOMAIN lookups[i].mapping
          /\ DOMAIN lookups[i].mapping # {}

\* the lookup the plan seeks in, 0 for a scan
PlanLookup ==
    IF Operations[1].operation = "DataScan" THEN 0 ELSE Operations[1].lookup

\* C6 First-match selection: the plan uses the first lookup in declaration
\* order that handles the query, and scans only when none does.
FirstMatchSelection ==
    Searching =>
        /\ Len(Operations) >= 1
        /\ IF Handlers = {} THEN PlanLookup = 0 ELSE PlanLookup = FirstHandler

FirstMatchSelectionWitness ==
    /\ Searching
    /\ Handlers = {1, 2}
    /\ lookups[1].pattern # lookups[2].pattern
    /\ PlanLookup = 1
    /\ result # <<>>

\* C7 DataScan fallback: a search always has a plan with operations, and when
\* no lookup handles the query the operations are exactly [DataScan(query)].
DataScanFallback ==
    Searching =>
        /\ Len(Operations) >= 1
        /\ Handlers = {} =>
              Operations = << [operation |-> "DataScan", pattern |-> Query] >>

DataScanFallbackWitness ==
    /\ Searching
    /\ Len(lookups) = MaxLookups
    /\ Handlers = {}
    /\ Operations[1].operation = "DataScan"
    /\ result # <<>>

\* C8 Range plan shape: a handled query with a range comparator is planned as
\* [LookupRangeSeek, Chain, FetchItemsByIndices], the seek bound to the
\* chosen lookup with the comparator's start_key, start_inclusive and matches.
RangePlanShape ==
    Searching /\ Handlers # {} /\ IsRangeComparator(Query.comparator) =>
        Operations =
            << [operation |-> "LookupRangeSeek",
                lookup |-> FirstHandler,
                start_key |-> Query.comparator.start_key,
                start_inclusive |-> Query.comparator.start_inclusive,
                match_func |-> Query.comparator],
               [operation |-> "Chain"],
               [operation |-> "FetchItemsByIndices"] >>

RangePlanShapeWitness ==
    /\ Searching
    /\ Handlers # {}
    /\ Query.comparator.type = "GreaterThanComparator"
    /\ lookups[FirstHandler].pattern.type = "SearchPattern"
    /\ Len(Operations) = 3
    /\ result # <<>>

\* C9 Point plan shape: a handled query with Eq or In is planned as
\* [LookupSeek, Chain, FetchItemsByIndices], the seek bound to the chosen
\* lookup with the comparator's values as its keys.
PointPlanShape ==
    Searching /\ Handlers # {} /\ ~IsRangeComparator(Query.comparator) =>
        Operations =
            << [operation |-> "LookupSeek",
                lookup |-> FirstHandler,
                keys |-> IF Query.comparator.type = "EqualsComparator"
                         THEN <<Query.comparator.value>>
                         ELSE Query.comparator.values],
               [operation |-> "Chain"],
               [operation |-> "FetchItemsByIndices"] >>

PointPlanShapeWitness ==
    /\ Searching
    /\ Handlers # {}
    /\ Query.comparator = InComparator(<<2, 1>>)
    /\ Len(Operations) = 3
    /\ Len(result) = 2

\* the covers matrix of the specification (section 3); a dash is FALSE
CoversMatrix(A, B) ==
    LET Eq == "EqualsComparator"
        In == "InComparator"
        Gt == "GreaterThanComparator"
        Ge == "GreaterThanEqualsComparator"
        Lt == "LessThanComparator"
        Le == "LessThanEqualsComparator"
        V(c) == Range(c.values)
        s(c) == c.start_key[1]
        e(c) == c.end_key[1]
        a == A.type
        b == B.type
    IN  CASE a = Eq /\ b = Eq -> A.value = B.value
          [] a = Eq /\ b = In -> {A.value} = V(B)
          [] a = In /\ b = Eq -> B.value \in V(A)
          [] a = In /\ b = In -> V(B) \subseteq V(A)
          [] a = Gt /\ b = Eq -> B.value > s(A)
          [] a = Gt /\ b = In -> \A x \in V(B) : x > s(A)
          [] a = Gt /\ b = Gt -> s(B) >= s(A)
          [] a = Gt /\ b = Ge -> s(B) > s(A)
          [] a = Ge /\ b = Eq -> B.value >= s(A)
          [] a = Ge /\ b = In -> \A x \in V(B) : x >= s(A)
          [] a = Ge /\ b = Gt -> s(B) >= s(A)
          [] a = Ge /\ b = Ge -> s(B) >= s(A)
          [] a = Lt /\ b = Eq -> B.value < e(A)
          [] a = Lt /\ b = In -> \A x \in V(B) : x < e(A)
          [] a = Lt /\ b = Lt -> e(B) <= e(A)
          [] a = Lt /\ b = Le -> e(B) < e(A)
          [] a = Le /\ b = Eq -> B.value <= e(A)
          [] a = Le /\ b = In -> \A x \in V(B) : x <= e(A)
          [] a = Le /\ b = Lt -> e(B) <= e(A)
          [] a = Le /\ b = Le -> e(B) <= e(A)
          [] OTHER -> FALSE

\* C10 Covers matrix: covers returns exactly the entry of the matrix for
\* every ordered pair of comparators, FALSE for every pair marked with a dash.
CoversIsMatrix ==
    cmp # <<>> => covered = CoversMatrix(cmp[1], cmp[2])

CoversIsMatrixWitness ==
    /\ cmp # <<>>
    /\ cmp[1] = GreaterThanComparator(1)
    /\ cmp[2] = GreaterThanEqualsComparator(2)
    /\ covered

\* Values are numbers, not integers only: between two neighbouring integer
\* thresholds lies a value.  The value h / 2 is written h, and a comparator
\* is asked about it with its own values written the same way.
HalfSteps == 0..(2 * MaxCoverVal + 1)

Doubled(c) ==
    CASE c.type = "EqualsComparator" -> EqualsComparator(2 * c.value)
      [] c.type = "InComparator" ->
             InComparator([i \in DOMAIN c.values |-> 2 * c.values[i]])
      [] c.type = "GreaterThanComparator" -> GreaterThanComparator(2 * c.start_key[1])
      [] c.type = "GreaterThanEqualsComparator" ->
             GreaterThanEqualsComparator(2 * c.start_key[1])
      [] c.type = "LessThanComparator" -> LessThanComparator(2 * c.end_key[1])
      [] c.type = "LessThanEqualsComparator" ->
             LessThanEqualsComparator(2 * c.end_key[1])

\* c.matches(h / 2)
MatchesHalf(c, h) == matches(Doubled(c), h)

\* every value that satisfies B satisfies A
Subsumes(A, B) == \A h \in HalfSteps : MatchesHalf(B, h) => MatchesHalf(A, h)

IsEmptyIn(c) == c.type = "InComparator" /\ c.values = <<>>

\* C11 Semantic meaning of covers, as stated: A.covers(B) is true if and only
\* if every value x with B.matches(x) also has A.matches(x).
CoversIffSubsumes ==
    cmp # <<>> => (covered <=> Subsumes(cmp[1], cmp[2]))

\* C11 amended: A.covers(B) is true if and only if every value x with
\* B.matches(x) also has A.matches(x), except that Eq(v) does not cover an In
\* with no values (which no value satisfies).
CoversIffSubsumesButEmptyIn ==
    cmp # <<>> =>
        (covered <=>
            /\ Subsumes(cmp[1], cmp[2])
            /\ ~(cmp[1].type = "EqualsComparator" /\ IsEmptyIn(cmp[2])))

\* item >= 2 does not cover item > 1: 1.5 satisfies the latter only
CoversIffSubsumesWitness ==
    /\ cmp # <<>>
    /\ cmp[1] = GreaterThanEqualsComparator(2)
    /\ cmp[2] = GreaterThanComparator(1)
    /\ ~covered
    /\ MatchesHalf(cmp[2], 3)
    /\ ~MatchesHalf(cmp[1], 3)

\* C12 Covers is transitive, as stated: A.covers(B) and B.covers(C) together
\* imply A.covers(C), for all comparators of the six kinds.
CoversTransitive ==
    trio # <<>> => (verdicts[1] /\ verdicts[2] => verdicts[3])

\* C12 amended: A.covers(B) and B.covers(C) together imply A.covers(C),
\* unless A is an Eq and C is an In with no values.
CoversTransitiveButEmptyIn ==
    trio # <<>> /\ ~(trio[1].type = "EqualsComparator" /\ IsEmptyIn(trio[3])) =>
        (verdicts[1] /\ verdicts[2] => verdicts[3])

CoversTransitiveWitness ==
    /\ trio # <<>>
    /\ trio[1] = GreaterThanComparator(1)
    /\ trio[2] = GreaterThanEqualsComparator(2)
    /\ trio[3] = InComparator(<<3, 2>>)
    /\ verdicts = <<TRUE, TRUE, TRUE>>

\* C13 Covers is reflexive: A.covers(A) is true for every comparator A of the
\* six kinds.
CoversReflexive ==
    cmp # <<>> /\ cmp[1] = cmp[2] => covered

CoversReflexiveWitness ==
    /\ cmp # <<>>
    /\ cmp[1] = LessThanComparator(2)
    /\ cmp[2] = LessThanComparator(2)
    /\ covered

\* C14 Handles relation: P.handles(Q) is true iff the signatures of P and Q
\* are equal and, when P is a SearchPattern, P.comparator.covers(Q.comparator);
\* an IndexerPattern handles every query with an equal signature.
HandlesRelation ==
    pats # <<>> =>
        (handled <=>
            /\ signature(pats[1].transformations) = signature(pats[2].transformations)
            /\ pats[1].type = "SearchPattern" =>
                  CoversMatrix(pats[1].comparator, pats[2].comparator))

HandlesRelationWitness ==
    /\ pats # <<>>
    /\ pats[1] = SearchPattern(<<KEY_a>>, GreaterThanComparator(1))
    /\ pats[2] = SearchPattern(<<KEY_a>>, LessThanComparator(2))
    /\ ~handled

\* C15 Handles reflexivity: every SearchPattern P handles itself, for every
\* comparator kind and every transformation chain.
HandlesReflexive ==
    pats # <<>> /\ pats[1] = pats[2] => handled

HandlesReflexiveWitness ==
    /\ pats # <<>>
    /\ pats[1] = SearchPattern(<<FN_double, KEY_a>>, GreaterThanComparator(2))
    /\ pats[2] = pats[1]
    /\ handled

\* C16 Signature equality is structural: a lookup whose chain differs from
\* the query's in a step, in the order of the steps or in how often a step
\* occurs does not handle the query, and the query is planned as [DataScan].
SignatureStructural ==
    pats # <<>> /\ pats[1].transformations # pats[2].transformations =>
        /\ ~handled
        /\ planned[1].operations = << [operation |-> "DataScan", pattern |-> pats[2]] >>

\* a lookup on double(double(item)) and a query on double(item)
SignatureStructuralWitness ==
    /\ pats # <<>>
    /\ pats[1] = IndexerPattern(<<FN_double, FN_double>>)
    /\ pats[2] = SearchPattern(<<FN_double>>, EqualsComparator(1))
    /\ ~handled
    /\ planned[1].operations[1].operation = "DataScan"

\* the generator being read, its lookup's mapping and sorted keys
Frame == seek[1]

SeekMapping == lookups[Frame.op.lookup].mapping

SeekKeys == mapping_keys(SeekMapping)

\* the set objects of the lookup the seek reads
SeekObjects == order[Frame.op.lookup]

RangeSeeking == seek # <<>> /\ Frame.op.operation = "LookupRangeSeek"

PointSeeking == seek # <<>> /\ Frame.op.operation = "LookupSeek"

\* the index into the sorted keys the comparator's start_key stands for
SeekStart ==
    LET c == Frame.op.match_func
    IN  IF c.start_key = <<>>
        THEN 0
        ELSE Cardinality({k \in DOMAIN SeekMapping :
                             IF c.start_inclusive THEN k < c.start_key[1]
                                                  ELSE k <= c.start_key[1]})

\* C17 Range short-circuit: LookupRangeSeek calls match_func at most once per
\* visited key, visits the keys in ascending order from start_position, stops
\* at the first key for which match_func is false, and the visited keys are a
\* prefix of the sorted keys from start_position onward.
RangeShortCircuit ==
    RangeSeeking =>
        /\ \A j \in 1..Len(calls) :
              /\ SeekStart + j <= Len(SeekKeys)
              /\ calls[j][1] = SeekKeys[SeekStart + j]
              /\ calls[j][2] = matches(Frame.op.match_func, calls[j][1])
              /\ ~calls[j][2] => j = Len(calls) /\ Frame.done
        /\ \A j \in 1..Len(calls), k \in 1..Len(calls) :
              j < k => calls[j][1] < calls[k][1]
        /\ Len(yielded) = Cardinality({j \in 1..Len(calls) : calls[j][2]})
        /\ \A j \in 1..Len(yielded) : yielded[j] = SeekObjects[calls[j][1]]

\* the seek stopped at a key that does not match and left a later key unvisited
RangeShortCircuitWitness ==
    /\ RangeSeeking
    /\ Frame.done
    /\ Len(calls) >= 1
    /\ ~calls[Len(calls)][2]
    /\ SeekStart + Len(calls) < Len(SeekKeys)

\* C18 LookupSeek yields exactly one position set per key of its keys, in the
\* order of keys, each the mapping's entry for that key; a key the mapping
\* does not hold yields the empty set.
SeekPerKey ==
    PointSeeking =>
        /\ Len(yielded) <= Len(Frame.op.keys)
        /\ Len(yielded) = Frame.at - (IF Frame.done THEN 1 ELSE 0)
        /\ Frame.done => Len(yielded) = Len(Frame.op.keys)
        /\ \A j \in 1..Len(yielded) :
              yielded[j] = IF Frame.op.keys[j] \in DOMAIN SeekMapping
                           THEN SeekObjects[Frame.op.keys[j]]
                           ELSE <<>>

\* an In of two keys, the first absent from the mapping, the second present
SeekPerKeyWitness ==
    /\ PointSeeking
    /\ Frame.done
    /\ Len(Frame.op.keys) = 2
    /\ DOMAIN SeekMapping # {}
    /\ yielded[1] = <<>>
    /\ yielded[2] # <<>>

\* the generator, read to its end, has yielded what execute returns
SeekAgreesWithExecute ==
    seek # <<>> /\ Frame.done =>
        yielded = Operation_call(Frame.op, <<>>, data, Objects(lookups, order))

\* C19 Bounded result stream: a search yields at most as many (position,
\* element) pairs as the host has elements, for every host, lookup set and
\* query, an In query's values taken in the caller's order.
BoundedResultStream ==
    Searching => Len(result) <= Len(data)

\* the set objects of all keys of a lookup's mapping, flattened as Chain does
Flattened(objects) ==
    Chain_execute(Chain,
                  [j \in 1..Len(mapping_keys(objects)) |-> objects[mapping_keys(objects)[j]]],
                  data)

\* C20 Disjoint key sets: within one lookup the position sets of two distinct
\* keys are disjoint, so flattening the sets of distinct keys with Chain
\* yields no position twice.
DisjointKeySets ==
    \A i \in 1..Len(lookups) :
        /\ \A k1 \in DOMAIN lookups[i].mapping, k2 \in DOMAIN lookups[i].mapping :
              k1 # k2 => lookups[i].mapping[k1] \cap lookups[i].mapping[k2] = {}
        /\ \A a \in DOMAIN Flattened(order[i]), b \in DOMAIN Flattened(order[i]) :
              a # b => Flattened(order[i])[a] # Flattened(order[i])[b]

\* an element was replaced by one with another key, and both keys are held
DisjointKeySetsWitness ==
    /\ last.op = "setitem"
    /\ \E i \in 1..Len(lookups) :
          /\ Pattern_matches(lookups[i].pattern, last.old)
          /\ Pattern_matches(lookups[i].pattern, last.new)
          /\ transform(lookups[i].pattern, last.old)
                # transform(lookups[i].pattern, last.new)
          /\ transform(lookups[i].pattern, last.old) \in DOMAIN lookups[i].mapping
          /\ transform(lookups[i].pattern, last.new) \in DOMAIN lookups[i].mapping

\* C22 Replace: replacing the element at p by e_new takes p out of the key
\* set of the old element (an emptied key is deleted), renumbers no other
\* stored position, and puts p under the key of e_new exactly when e_new is
\* indexable and passes the filter; each lookup equals the one got by
\* removing p without renumbering and then inserting (p, e_new).
ReplaceEffect ==
    [][last'.op = "setitem" =>
        /\ Len(lookups') = Len(lookups)
        /\ \A i \in 1..Len(lookups) :
              LET old == lookups[i].mapping
                  new == lookups'[i].mapping
                  pattern == lookups[i].pattern
                  p == last'.p
                  e == last'.new
              IN  /\ \A k \in KeysOf(old) \cup DOMAIN new, q \in 0..MaxLen :
                        q \in mapping_get(new, k) <=>
                            \/ q # p /\ q \in mapping_get(old, k)
                            \/ /\ q = p
                               /\ Pattern_matches(pattern, e)
                               /\ transform(pattern, e) = k
                  /\ \A k \in DOMAIN new : new[k] # {}
                  /\ lookups'[i] =
                        on_insert([lookups[i] EXCEPT !.mapping = mapping_discard(@, p)],
                                  p, e)
    ]_vars

\* an indexed element was replaced by one the lookup does not index, its key
\* went away with it and a later position stayed where it was
ReplaceEffectWitness ==
    /\ last.op = "setitem"
    /\ last.p = 0
    /\ \E i \in 1..Len(lookups) :
          /\ Pattern_matches(lookups[i].pattern, last.old)
          /\ ~Pattern_matches(lookups[i].pattern, last.new)
          /\ transform(lookups[i].pattern, last.old) \notin DOMAIN lookups[i].mapping
          /\ \E k \in DOMAIN lookups[i].mapping : 1 \in lookups[i].mapping[k]

\* C23 Delete: deleting host position p removes p from every key set of
\* every lookup, deletes an emptied key, decrements every stored q > p and
\* leaves every stored q < p; a lookup that did not hold p keeps its keys,
\* and an Eq query through any lookup then returns an indexed element at its
\* shifted position exactly once.
DeleteEffect ==
    [][last'.op = "delitem" =>
        /\ Len(lookups') = Len(lookups)
        /\ \A i \in 1..Len(lookups) :
              LET old == lookups[i].mapping
                  new == lookups'[i].mapping
                  pattern == lookups[i].pattern
                  p == last'.p
              IN  /\ \A k \in KeysOf(old) \cup DOMAIN new, q \in 0..MaxLen :
                        q \in mapping_get(new, k) <=>
                            \E q0 \in mapping_get(old, k) :
                                /\ q0 # p
                                /\ q = IF q0 > p THEN q0 - 1 ELSE q0
                  /\ \A k \in DOMAIN new : new[k] # {}
                  /\ (\A k \in DOMAIN old : p \notin old[k]) => DOMAIN new = DOMAIN old
                  /\ \A q \in 0..(Len(data') - 1) :
                        Pattern_matches(pattern, data'[q + 1]) =>
                            LET query == SearchPattern(pattern.transformations,
                                             EqualsComparator(transform(pattern, data'[q + 1])))
                                qp == create(query, <<lookups'[i]>>)
                                found == QueryPlan_execute(qp, data',
                                             Objects(<<lookups'[i]>>, <<order'[i]>>))
                            IN  /\ qp.operations[1].operation = "LookupSeek"
                                /\ Cardinality({j \in DOMAIN found :
                                                    found[j] = <<q, data'[q + 1]>>}) = 1
    ]_vars

\* the first element was deleted, an indexed later one moved down to
\* position 0, and a filtered lookup that never held the deleted one is there
DeleteEffectWitness ==
    /\ last.op = "delitem"
    /\ last.p = 0
    /\ \E i \in 1..Len(lookups) :
          /\ Pattern_matches(lookups[i].pattern, last.old)
          /\ \E k \in DOMAIN lookups[i].mapping : 0 \in lookups[i].mapping[k]
    /\ \E i \in 1..Len(lookups) :
          /\ lookups[i].pattern.type = "SearchPattern"
          /\ ~Pattern_matches(lookups[i].pattern, last.old)
          /\ DOMAIN lookups[i].mapping # {}

\* the index into the sorted keys at which the keys the seek took begin
SeekFrom == Len(SeekKeys) - Len(Frame.keys)

\* C25 Range seek start position: LookupRangeSeek starts at index 0 when
\* start_key is absent (Lt, Le); otherwise at bisect_left(start_key) when
\* start_inclusive (Ge) and at bisect_right(start_key) when not (Gt), so a
\* key equal to start_key is visited for Ge and not for Gt, whether or not
\* the mapping holds start_key.
RangeSeekStart ==
    RangeSeeking /\ Frame.started =>
        LET op == Frame.op
        IN  /\ SeekFrom >= 0
            /\ Frame.keys = SubSeq(SeekKeys, SeekFrom + 1, Len(SeekKeys))
            /\ op.start_key = <<>> => SeekFrom = 0
            /\ op.match_func.type \in {"LessThanComparator", "LessThanEqualsComparator"}
                  => op.start_key = <<>>
            /\ op.start_key # <<>> /\ op.start_inclusive =>
                  /\ op.match_func.type = "GreaterThanEqualsComparator"
                  /\ \A j \in 1..Len(SeekKeys) :
                        j <= SeekFrom <=> SeekKeys[j] < op.start_key[1]
                  /\ op.start_key[1] \in DOMAIN SeekMapping =>
                        /\ calls # <<>>
                        /\ calls[1][1] = op.start_key[1]
            /\ op.start_key # <<>> /\ ~op.start_inclusive =>
                  /\ op.match_func.type = "GreaterThanComparator"
                  /\ \A j \in 1..Len(SeekKeys) :
                        j <= SeekFrom <=> SeekKeys[j] <= op.start_key[1]
                  /\ \A j \in 1..Len(calls) : calls[j][1] # op.start_key[1]

\* a Gt seek on a mapping that holds start_key and a later key: it began
\* after start_key, at neither end of the keys
RangeSeekStartWitness ==
    /\ RangeSeeking
    /\ Frame.started
    /\ Frame.op.match_func.type = "GreaterThanComparator"
    /\ Frame.op.start_key[1] \in DOMAIN SeekMapping
    /\ SeekFrom > 0
    /\ SeekFrom < Len(SeekKeys)
    /\ calls # <<>>

\* the mapping keys the seek's comparator matches, ascending
MatchingKeys ==
    SortedSeq({k \in DOMAIN SeekMapping : matches(Frame.op.match_func, k)})

\* C30 Range seek completeness: for every key-sorted mapping and every range
\* comparator the keys whose position sets LookupRangeSeek yields are exactly
\* the mapping keys the comparator matches: none lies before start_position
\* and the stop at the first non-matching key cuts off none.
RangeSeekComplete ==
    RangeSeeking /\ Frame.done =>
        /\ {calls[j][1] : j \in {i \in 1..Len(calls) : calls[i][2]}}
              = {k \in DOMAIN SeekMapping : matches(Frame.op.match_func, k)}
        /\ yielded = [j \in 1..Len(MatchingKeys) |-> SeekObjects[MatchingKeys[j]]]

\* a Ge seek whose start_key the mapping holds, with a smaller key before
\* it, read to its end
RangeSeekCompleteWitness ==
    /\ RangeSeeking
    /\ Frame.done
    /\ Frame.op.match_func.type = "GreaterThanEqualsComparator"
    /\ Frame.op.start_key[1] \in DOMAIN SeekMapping
    /\ Len(MatchingKeys) >= 1
    /\ Len(MatchingKeys) < Len(SeekKeys)

\* a Le seek that stopped at a key past its end, read to its end
RangeSeekCompleteUpper ==
    /\ RangeSeeking
    /\ Frame.done
    /\ Frame.op.match_func.type = "LessThanEqualsComparator"
    /\ Len(MatchingKeys) >= 1
    /\ Len(MatchingKeys) < Len(SeekKeys)

\* C26 Skip is caught at the pattern boundary: for an element on which the
\* chain signals skip, SearchPattern.matches and IndexerPattern.matches
\* return false; for an element that transforms successfully
\* SearchPattern.matches returns comparator.matches of the transformed value
\* and IndexerPattern.matches returns true.
SkipCaught ==
    probe # <<>> =>
        LET pattern == probe[1]
            r == apply(pattern.transformations, probe[2])
        IN  /\ matched \in BOOLEAN
            /\ r.status = "skip" => matched = FALSE
            /\ r.status = "ok" /\ pattern.type = "IndexerPattern" => matched = TRUE
            /\ r.status = "ok" /\ pattern.type = "SearchPattern" =>
                  matched = matches(pattern.comparator, r.value.int)

\* an indexer pattern was asked about an element that lacks the key of its chain
SkipCaughtWitness ==
    /\ probe # <<>>
    /\ probe[1].type = "IndexerPattern"
    /\ Len(probe[1].transformations) = 2
    /\ apply(probe[1].transformations, probe[2]).status = "skip"
    /\ ~matched

\* a search pattern was asked about an element its chain transforms into a
\* value its comparator matches
SkipCaughtMatched ==
    /\ probe # <<>>
    /\ probe[1].type = "SearchPattern"
    /\ probe[1].transformations = <<KEY_a, FN_double>>
    /\ apply(probe[1].transformations, probe[2]).status = "ok"
    /\ matched

\* C27 DataScan yields (position, element) for exactly the host positions p
\* with pattern.matches(host[p]), each exactly once and in strictly
\* ascending order of p.
DataScanOrdered ==
    Searching /\ Operations[1].operation = "DataScan" =>
        /\ \A j \in 1..Len(result) :
              /\ result[j][1] \in Positions
              /\ result[j][2] = data[result[j][1] + 1]
        /\ \A j \in 1..Len(result), k \in 1..Len(result) :
              j < k => result[j][1] < result[k][1]
        /\ {result[j][1] : j \in 1..Len(result)}
              = {p \in Positions : Pattern_matches(Operations[1].pattern, data[p + 1])}

\* a scan of a full host that yielded the last element only
DataScanOrderedWitness ==
    /\ Searching
    /\ Operations[1].operation = "DataScan"
    /\ Len(data) = MaxLen
    /\ Len(result) = 1
    /\ result[1][1] = MaxLen - 1

\* a scan of a full host that yielded every element
DataScanOrderedAll ==
    /\ Searching
    /\ Operations[1].operation = "DataScan"
    /\ Len(data) = MaxLen
    /\ Len(result) = MaxLen

\* covers asked both ways: the trio is <<A, B, A>>, so the first two verdicts
\* are A.covers(B) and B.covers(A)
AskedBothWays == trio # <<>> /\ trio[3] = trio[1]

\* C28 Covers is antisymmetric, as stated: if A.covers(B) and B.covers(A)
\* then A and B are the same comparator (same kind and same values).
CoversAntisymmetric ==
    AskedBothWays /\ verdicts[1] /\ verdicts[2] => trio[1] = trio[2]

\* C28 amended: if A.covers(B) and B.covers(A) then A and B are the same
\* comparator, or both are point comparators (Eq or In) with the same set
\* of values.
CoversAntisymmetricUpToValues ==
    AskedBothWays /\ verdicts[1] /\ verdicts[2] =>
        \/ trio[1] = trio[2]
        \/ /\ ~IsRangeComparator(trio[1])
           /\ ~IsRangeComparator(trio[2])
           /\ Range(comparator_values(trio[1])) = Range(comparator_values(trio[2]))

\* an Eq and an In of the same single value cover each other
CoversAntisymmetricWitness ==
    /\ AskedBothWays
    /\ trio[1] = EqualsComparator(2)
    /\ trio[2] = InComparator(<<2>>)
    /\ verdicts[1]
    /\ verdicts[2]

\* a Gt and the Ge one above it: the Gt covers the Ge, the Ge not the Gt
CoversAntisymmetricOneWay ==
    /\ AskedBothWays
    /\ trio[1] = GreaterThanComparator(1)
    /\ trio[2] = GreaterThanEqualsComparator(2)
    /\ verdicts[1]
    /\ ~verdicts[2]

\* the search under way seeks in a filtered lookup
FilteredSeek ==
    /\ Searching
    /\ PlanLookup # 0
    /\ lookups[PlanLookup].pattern.type = "SearchPattern"

\* C29 Covers is sound: when A.covers(B) is true every value B matches is
\* matched by A; so whenever the planner selects a filtered lookup for a
\* query, every host position matching the query is in that lookup's mapping.
CoversSound ==
    FilteredSeek =>
        LET filter == lookups[PlanLookup].pattern.comparator
            mapping == lookups[PlanLookup].mapping
        IN  /\ covers(filter, Query.comparator)
            /\ Subsumes(filter, Query.comparator)
            /\ \A p \in Positions :
                  QueryMatches(Query, data[p + 1]) =>
                      \E k \in DOMAIN mapping : p \in mapping[k]

\* a point query answered from a lookup with a range filter that holds one
\* element of the host and not the other
CoversSoundWitness ==
    /\ FilteredSeek
    /\ Operations[1].operation = "LookupSeek"
    /\ IsRangeComparator(lookups[PlanLookup].pattern.comparator)
    /\ result # <<>>
    /\ \E p \in Positions :
          \A k \in DOMAIN lookups[PlanLookup].mapping :
              p \notin lookups[PlanLookup].mapping[k]

\* a search through a lookup yielded a later position before an earlier one
OutOfOrder ==
    /\ Searching
    /\ Operations[1].operation # "DataScan"
    /\ \E j \in 1..Len(result), k \in 1..Len(result) :
          j < k /\ result[j][1] > result[k][1]

\* two lookups hold sets of the same members that iterate in different orders
OwnOrder ==
    \E i \in 1..Len(lookups), j \in 1..Len(lookups) :
        \E k \in DOMAIN order[i], l \in DOMAIN order[j] :
            /\ Range(order[i][k]) = Range(order[j][l])
            /\ order[i][k] # order[j][l]

Pulling == stream # <<>>

\* C21 Planning and searching are read-only: making a plan, executing it and
\* pulling its result stream to the end leave the host's contents and every
\* lookup's mapping unchanged.
SearchReadOnly ==
    [][stream' # <<>> => (data' = data /\ lookups' = lookups /\ order' = order)]_vars

\* a point seek on a lookup that lacks one of the keys, pulled to its end
SearchReadOnlyWitness ==
    /\ Pulling
    /\ stream[1].done
    /\ Operations[1].operation = "LookupSeek"
    /\ \E i \in DOMAIN yielded : yielded[i] = <<>>
    /\ result # <<>>

\* the stream, pulled to its end, has yielded what execute returns
PullAgreesWithExecute ==
    Pulling /\ stream[1].done =>
        result = QueryPlan_execute(plan[1], data, Objects(lookups, order))

\* C24 Laziness: making the result stream evaluates match_func on no key and
\* reads no mapping entry and no host element; that happens only when the
\* consumer pulls.
LazyConstruction ==
    Pulling /\ stream[1].at = 0 /\ ~stream[1].done =>
        /\ calls = <<>>
        /\ yielded = <<>>
        /\ fetched = <<>>

====
